---------------------------- MODULE Spec2Model ----------------------------
(***************************************************************************)
(* A model of pyhanabi/sym_utils.py (the permutation-equivariant linear    *)
(* transform and its orbit enumeration) and of pyhanabi/r2d2.py (the       *)
(* recurrent Q-network and the double-DQN agent built on it).              *)
(*                                                                         *)
(* Tensors are sequences of integers.  An arity class m of a size          *)
(* signature is stored at index m+1 (TLA+ sequences start at 1); agent     *)
(* indices, action indices, offsets and time steps keep the source's       *)
(* 0-based values.                                                         *)
(***************************************************************************)
EXTENDS Integers, Sequences, FiniteSets, TLC

VARIABLES layer,    \* SymLinear: n, in_sizes, out_sizes, in_size, out_size, weight, bias
          call,     \* the last sym_utils call: its name, arguments and what it returned
          agent,    \* R2D2Agent: its constants and the two networks' parameters
          synced,   \* the online parameters as of the last sync_target_with_online
          input,    \* the data the actors and the replay buffer hand to the agent
          reply     \* the last agent operation: its name, random draws and result

vars == <<layer, call, agent, synced, input, reply>>

----------------------------------------------------------------------------
(* Bounds of the model.                                                    *)

MaxN == 3        \* agent counts n of a SymLinear layer: 2..MaxN
MaxOrbN == 4     \* agent counts n of an unq_permutations call: 2..MaxOrbN
NumAction == 2   \* actions of the game (the advantage head's out_dim)
MaxT == 3        \* time steps of a padded training sequence (max_seq_len)

----------------------------------------------------------------------------
(* Helpers on sequences.                                                   *)

Range(s) == {s[i] : i \in 1..Len(s)}

RECURSIVE SumSeq(_)
SumSeq(s) == IF s = <<>> THEN 0 ELSE s[1] + SumSeq(Tail(s))

RECURSIVE Concat(_)
Concat(ss) == IF ss = <<>> THEN <<>> ELSE ss[1] \o Concat(Tail(ss))

RemoveAt(s, i) == SubSeq(s, 1, i - 1) \o SubSeq(s, i + 1, Len(s))

\* Python's range(k) as a list
PyRange(k) == [i \in 1..k |-> i - 1]

\* Python's [v] * k (the empty list when k <= 0)
Repeat(v, k) == [i \in 1..(IF k > 0 THEN k ELSE 0) |-> v]

\* Python's list.index: 0-based position of the first occurrence
IndexOf(s, x) == (CHOOSE i \in 1..Len(s) : s[i] = x /\ \A j \in 1..(i - 1) : s[j] # x) - 1

----------------------------------------------------------------------------
(* sym_utils.py                                                            *)

RECURSIVE factorial(_)
factorial(n) == IF n <= 0 THEN 1 ELSE n * factorial(n - 1)

num_perms(n, m) == factorial(n) \div factorial(n - m)

RECURSIVE SizesSum(_, _, _)
SizesSum(n, sizes, m) ==
    IF m >= Len(sizes) THEN 0
    ELSE num_perms(n, m) * sizes[m + 1] + SizesSum(n, sizes, m + 1)

sizes_to_size(n, sizes) == SizesSum(n, sizes, 0)

mask_perm(perm, mask) ==
    [i \in 1..Len(perm) |-> IF perm[i] \in Range(mask) THEN IndexOf(mask, perm[i]) ELSE -1]

\* itertools.permutations(pool, m): the m-length tuples of elements at distinct
\* positions of pool, in lexicographic order of the positions; a pool with
\* equal elements yields equal tuples more than once.
RECURSIVE permutations(_, _)
permutations(pool, m) ==
    IF m = 0 THEN << <<>> >>
    ELSE Concat([i \in 1..Len(pool) |->
                   LET rest == permutations(RemoveAt(pool, i), m - 1)
                   IN  [j \in 1..Len(rest) |-> <<pool[i]>> \o rest[j]]])

unq_permutations_drop_pad(n, m, k) == Range(permutations(PyRange(k), m))

unq_permutations(n, m, k) ==
    Range(permutations(PyRange(k) \o Repeat(-1, n - k), m))

\* the arity classes a loop "for m in range(len(sizes)): if sizes[m]" visits
Classes(sizes) == {m \in 0..(Len(sizes) - 1) : sizes[m + 1] # 0}

build_weight_keys(n, in_sizes, out_sizes) ==
    UNION {UNION {{<<m1, perm>> : perm \in unq_permutations(n, m0, m1)}
                  : m0 \in Classes(in_sizes)}
           : m1 \in Classes(out_sizes)}


\* xj.matmul(w) for a 1-D xj and a 2-D w (a sequence of rows): the contraction
\* runs over w's first dimension, which must equal xj's length
matmul(xj, w) == [c \in 1..Len(w[1]) |-> SumSeq([r \in 1..Len(xj) |-> xj[r] * w[r][c]])]

\* the (m1, perm1) pairs of linear's two outer loops, in order
OutIter(n, out_sizes) ==
    Concat([mm \in 1..Len(out_sizes) |->
              IF out_sizes[mm] = 0 THEN <<>>
              ELSE LET ps == permutations(PyRange(n), mm - 1)
                   IN  [j \in 1..Len(ps) |-> <<mm - 1, ps[j]>>]])

\* the (m0, perm0) pairs of linear's two inner loops for one perm1, in order
InIter(n, in_sizes, perm1) ==
    Concat([mm \in 1..Len(in_sizes) |->
              IF in_sizes[mm] = 0 THEN <<>>
              ELSE LET ps == permutations(mask_perm(PyRange(n), perm1), mm - 1)
                   IN  [j \in 1..Len(ps) |-> <<mm - 1, ps[j]>>]])

\* linear's inner loops (lines 49-55) for one output slice yi, from step j on;
\* keys lists the perm0 of every lookup weight[m1, perm0] the loops made, the
\* one of a failing step included (the lookup precedes the product)
RECURSIVE InnerLoop(_, _, _, _, _, _, _, _, _, _)
InnerLoop(x, in_sizes, weight, m1, iter, j, yi, st_x, visits, keys) ==
    IF j > Len(iter)
    THEN [status |-> "ok", why |-> "", yi |-> yi, st_x |-> st_x, visits |-> visits, keys |-> keys]
    ELSE LET m0 == iter[j][1]
             perm0 == iter[j][2]
             w == in_sizes[m0 + 1]
             fail(why, ks) == [status |-> "raise", why |-> why, yi |-> yi, st_x |-> st_x,
                               visits |-> visits, keys |-> ks]
         IN  IF st_x + w > Len(x) THEN fail("narrow", keys)
             ELSE IF <<m1, perm0>> \notin DOMAIN weight THEN fail("KeyError", Append(keys, perm0))
             ELSE LET xj == SubSeq(x, st_x + 1, st_x + w)
                      wt == weight[<<m1, perm0>>]
                  IN  IF Len(wt) # Len(xj) THEN fail("matmul", Append(keys, perm0))
                      ELSE LET p == matmul(xj, wt)
                           IN  InnerLoop(x, in_sizes, weight, m1, iter, j + 1,
                                         [c \in 1..Len(yi) |-> yi[c] + p[c]],
                                         st_x + w, Append(visits, <<st_x, w>>),
                                         Append(keys, perm0))

\* linear's outer loops (lines 45-56), from step i on; y is updated in place
\* through the view yi
RECURSIVE OuterLoop(_, _, _, _, _, _, _, _, _, _)
OuterLoop(n, in_sizes, out_sizes, x, weight, iter, i, y, st_y, trace) ==
    IF i > Len(iter)
    THEN [status |-> "ok", why |-> "", y |-> y, st_y |-> st_y, trace |-> trace]
    ELSE LET m1 == iter[i][1]
             perm1 == iter[i][2]
             w == out_sizes[m1 + 1]
         IN  IF st_y + w > Len(y)
             THEN [status |-> "raise", why |-> "narrow", y |-> y, st_y |-> st_y, trace |-> trace]
             ELSE LET inner == InnerLoop(x, in_sizes, weight, m1, InIter(n, in_sizes, perm1), 1,
                                         SubSeq(y, st_y + 1, st_y + w), 0, <<>>, <<>>)
                      y1 == [c \in 1..Len(y) |->
                               IF c > st_y /\ c <= st_y + w THEN inner.yi[c - st_y] ELSE y[c]]
                      step == [m1 |-> m1, perm1 |-> perm1, st_y |-> st_y, w |-> w,
                               st_x |-> inner.st_x, visits |-> inner.visits,
                               keys |-> inner.keys]
                  IN  IF inner.status = "raise"
                      THEN [status |-> "raise", why |-> inner.why, y |-> y1, st_y |-> st_y,
                            trace |-> Append(trace, step)]
                      ELSE OuterLoop(n, in_sizes, out_sizes, x, weight, iter, i + 1, y1,
                                     st_y + w, Append(trace, step))

\* linear(n, in_sizes, out_sizes, out_size, x, weight, bias) for a 1-D x: y starts
\* as a copy of the whole bias tensor; trace records, per output slice, the
\* slices the loops narrowed to
linear(n, in_sizes, out_sizes, out_size, x, weight, bias) ==
    OuterLoop(n, in_sizes, out_sizes, x, weight, OutIter(n, out_sizes), 1, bias, 0, <<>>)


----------------------------------------------------------------------------
(* r2d2.py: SymLinear                                                      *)

\* the values torch's uniform_ leaves in a parameter are arbitrary; the model
\* draws them from a family indexed by a seed
Seeds == 0..1

KeyCode(key) == key[1] + SumSeq([i \in 1..Len(key[2]) |-> i * (key[2][i] + 2)])

\* build_weight followed by reset_parameters: one (out_sizes[m1], in_sizes[m0])
\* matrix per key (m1, perm), m0 being perm's length
build_weight(n, in_sizes, out_sizes, seed) ==
    [key \in build_weight_keys(n, in_sizes, out_sizes) |->
        [r \in 1..out_sizes[key[1] + 1] |->
            [c \in 1..in_sizes[Len(key[2]) + 1] |->
                ((seed + KeyCode(key) + r + 2 * c) % 3) - 1]]]

\* SymLinear.__init__: the bias is one tensor of out_size independent entries
SymLinear(n, in_sizes, out_sizes, seed) ==
    [n |-> n,
     in_sizes |-> in_sizes,
     in_size |-> sizes_to_size(n, in_sizes),
     out_sizes |-> out_sizes,
     out_size |-> sizes_to_size(n, out_sizes),
     weight |-> build_weight(n, in_sizes, out_sizes, seed),
     bias |-> [i \in 1..sizes_to_size(n, out_sizes) |-> (seed + i) % 3]]

\* per-block feature widths of a signature
Widths == {0, 1, 2}

\* the size signatures of a layer for n agents: one width per arity class
\* 0..len-1, for 1..n classes, at most two of them present
Signatures(n) ==
    {s \in UNION {[1..len -> Widths] : len \in 1..n} : Cardinality(Classes(s)) <= 2}

Layers == UNION {{SymLinear(n, i, o, 0) : i \in Signatures(n), o \in Signatures(n)}
                 : n \in 2..MaxN}

InputKinds == 0..1

Inputs(width) == {[i \in 1..width |-> (kd * i + 1) % 3] : kd \in InputKinds}

NoCall == [op |-> "none"]
NoLayer == [n |-> 0]
NoAgent == [vdn |-> FALSE]
NoReply == [op |-> "none"]
NoInput == [kind |-> "none"]

\* SymLinear.forward
Forward ==
    /\ layer.n > 0
    /\ \E x \in Inputs(layer.in_size) :
          call' = [op |-> "forward", x |-> x,
                   out |-> linear(layer.n, layer.in_sizes, layer.out_sizes, layer.out_size,
                                  x, layer.weight, layer.bias)]
    /\ UNCHANGED <<layer, agent, synced, input, reply>>

\* SymLinear.reset_parameters: every parameter is redrawn
ResetParameters ==
    /\ layer.n > 0
    /\ \E seed \in Seeds :
          layer' = SymLinear(layer.n, layer.in_sizes, layer.out_sizes, seed)
    /\ call' = NoCall
    /\ UNCHANGED <<agent, synced, input, reply>>

InitSym ==
    /\ layer \in Layers
    /\ call = NoCall
    /\ agent = NoAgent
    /\ synced = NoAgent
    /\ input = NoInput
    /\ reply = NoReply

NextSym == Forward \/ ResetParameters

SpecSym == InitSym /\ [][NextSym]_vars

----------------------------------------------------------------------------
(* The orbit enumerator on its own: calls of unq_permutations and mask_perm *)

UnqPermutations ==
    /\ \E n \in 2..MaxOrbN : \E m \in 0..n : \E k \in 0..n :
          call' = [op |-> "unq_permutations", n |-> n, m |-> m, k |-> k,
                   out |-> unq_permutations(n, m, k)]
    /\ UNCHANGED <<layer, agent, synced, input, reply>>

\* mask_perm as linear calls it: the agents 0..n-1 masked against an output
\* permutation perm1
MaskPerm ==
    /\ \E n \in 2..MaxOrbN : \E m1 \in 0..n : \E perm1 \in Range(permutations(PyRange(n), m1)) :
          call' = [op |-> "mask_perm", n |-> n, perm |-> PyRange(n), mask |-> perm1,
                   out |-> mask_perm(PyRange(n), perm1)]
    /\ UNCHANGED <<layer, agent, synced, input, reply>>

InitOrbit ==
    /\ layer = NoLayer
    /\ call = NoCall
    /\ agent = NoAgent
    /\ synced = NoAgent
    /\ input = NoInput
    /\ reply = NoReply

NextOrbit == UnqPermutations \/ MaskPerm

SpecOrbit == InitOrbit /\ [][NextOrbit]_vars


----------------------------------------------------------------------------
(* Layout of a tensor partitioned by a size signature, and the action of a *)
(* relabeling of the agents on it.                                         *)

\* offset of the i-th slice of a layout iter = OutIter(n, sizes)
RECURSIVE SliceStart(_, _, _)
SliceStart(iter, sizes, i) ==
    IF i <= 1 THEN 0 ELSE SliceStart(iter, sizes, i - 1) + sizes[iter[i - 1][1] + 1]

\* the relabelings of n agents: sigma[a + 1] is the new label of agent a
Relabelings(n) == Range(permutations(PyRange(n), n))

Relabel(sigma, perm) == [i \in 1..Len(perm) |-> sigma[perm[i] + 1]]

\* v with the slice of every permutation p moved to the slice of sigma(p)
PermuteSlices(n, sizes, sigma, v) ==
    LET iter == OutIter(n, sizes)
        slot(c) == CHOOSE j \in 1..Len(iter) :
                      /\ SliceStart(iter, sizes, j) < c
                      /\ c <= SliceStart(iter, sizes, j) + sizes[iter[j][1] + 1]
        src(j) == CHOOSE i \in 1..Len(iter) :
                      /\ iter[i][1] = iter[j][1]
                      /\ Relabel(sigma, iter[i][2]) = iter[j][2]
    IN  [c \in 1..Len(v) |->
           v[SliceStart(iter, sizes, src(slot(c))) + (c - SliceStart(iter, sizes, slot(c)))]]

\* the number of output slices of a signature, counted by enumeration
NumSlices(n, sizes) == Len(OutIter(n, sizes))

\* a list of (offset, width) visits starts at 0 and is contiguous
RECURSIVE Contiguous(_, _)
Contiguous(visits, from) ==
    \/ visits = <<>>
    \/ /\ visits[1][1] = from
       /\ Contiguous(Tail(visits), from + visits[1][2])

VisitsEnd(visits) == SumSeq([i \in 1..Len(visits) |-> visits[i][2]])

----------------------------------------------------------------------------
(* C1: equivariance of SymLinear.forward.  Whenever a forward call returns,  *)
(* then for every relabeling sigma of the n agents the call on the input   *)
(* with its slices permuted by sigma returns the output with its slices    *)
(* permuted by sigma.                                                      *)
C1_Equivariance ==
    (call.op = "forward" /\ call.out.status = "ok") =>
        \A sigma \in Relabelings(layer.n) :
            LET r == linear(layer.n, layer.in_sizes, layer.out_sizes, layer.out_size,
                            PermuteSlices(layer.n, layer.in_sizes, sigma, call.x),
                            layer.weight, layer.bias)
            IN  /\ r.status = "ok"
                /\ r.y = PermuteSlices(layer.n, layer.out_sizes, sigma, call.out.y)

(* C7: shape contract.  sizes_to_size is the sum over the arity classes of  *)
(* (number of m-permutations of the n agents) * sizes[m]; and every forward *)
(* call visits one output slice per output permutation, the output offset  *)
(* running without gap or overlap from 0 to exactly out_size, and for each *)
(* output slice the input offset running without gap or overlap from 0 to  *)
(* exactly in_size.                                                        *)
C7_ShapeContract ==
    call.op = "forward" =>
        LET out == call.out
            enum(sizes) == SumSeq([mm \in 1..Len(sizes) |->
                              Len(permutations(PyRange(layer.n), mm - 1)) * sizes[mm]])
        IN  /\ layer.in_size = enum(layer.in_sizes)
            /\ layer.out_size = enum(layer.out_sizes)
            /\ Len(out.trace) = NumSlices(layer.n, layer.out_sizes)
            /\ out.st_y = layer.out_size
            /\ Contiguous([i \in 1..Len(out.trace) |-> <<out.trace[i].st_y, out.trace[i].w>>], 0)
            /\ \A i \in 1..Len(out.trace) :
                  /\ Contiguous(out.trace[i].visits, 0)
                  /\ VisitsEnd(out.trace[i].visits) = layer.in_size
                  /\ out.trace[i].st_x = layer.in_size


----------------------------------------------------------------------------
(* The incremental orbit construction of the design (section 4.1 (b)):     *)
(* k = 0 gives the all-sentinel sequence alone; the orbits for k are every *)
(* orbit for k-1 with k-1 substituted at one of its sentinel positions.    *)

RECURSIVE incremental_orbits(_, _)
incremental_orbits(m, k) ==
    IF k = 0 THEN {Repeat(-1, m)}
    ELSE UNION {{[o EXCEPT ![pos] = k - 1] : pos \in {i \in 1..m : o[i] = -1}}
                : o \in incremental_orbits(m, k - 1)}

(* C6 as claimed: for every n, m, k the set unq_permutations(n, m, k)       *)
(* returns is the set the incremental construction builds.                 *)
C6_OrbitsAgree ==
    call.op = "unq_permutations" => call.out = incremental_orbits(call.m, call.k)

(* C6 amended: the incremental construction builds exactly the members of  *)
(* unq_permutations(n, m, k) in which every value 0..k-1 occurs; the two    *)
(* sets are equal when k = 0 (both the all-sentinel sequence alone) and    *)
(* when m = n, and differ for every other 0 < k <= n, m < n.               *)
C6_OrbitsAmended ==
    call.op = "unq_permutations" =>
        LET inc == incremental_orbits(call.m, call.k)
        IN  /\ inc = {p \in call.out : \A v \in 0..(call.k - 1) : v \in Range(p)}
            /\ (call.k = 0 => call.out = {Repeat(-1, call.m)})
            /\ (call.out = inc <=> (call.k = 0 \/ call.m = call.n))

C6_Witness ==
    /\ call.op = "unq_permutations"
    /\ call.n = 3 /\ call.m = 3 /\ call.k = 2
    /\ Cardinality(call.out) = 6
    /\ call.out = incremental_orbits(3, 2)


----------------------------------------------------------------------------
(* r2d2.py: R2D2Net on its plain path (symnet false), with in_dim = 1,      *)
(* hid_dim = 1 and one LSTM layer.  A feature vector of width 1 is its one *)
(* entry.  Tensor layouts: [batch], [seq][batch], [seq][batch][action],    *)
(* and [layer][batch] for the two halves of the recurrent state.           *)
(*                                                                         *)
(* Arithmetic is exact.  _duel divides by the number of actions (mean), so *)
(* every Q-value is stored multiplied by NumAction; td_error multiplies by *)
(* gamma ** multi_step, so targets, errors and priorities are stored       *)
(* multiplied by TdScale (NumAction * gamma.den ^ multi_step).             *)

\* a local variable: the value v, computed once, under the name the operator
\* F gives it
Bind(v, F(_)) == CHOOSE r \in {F(w) : w \in {v}} : TRUE

Actions == 0..(NumAction - 1)

Clip(v, lo, hi) == IF v < lo THEN lo ELSE IF v > hi THEN hi ELSE v

ReLU(v) == IF v > 0 THEN v ELSE 0

Abs(v) == IF v < 0 THEN -v ELSE v

RECURSIVE Pow(_, _)
Pow(b, e) == IF e <= 0 THEN 1 ELSE b * Pow(b, e - 1)

\* Tensor.min() over a flattened, non-empty tensor
MinSeq(s) == CHOOSE v \in Range(s) : \A u \in Range(s) : v <= u

\* Tensor.argmax over the last dimension: the 0-based index of the first maximum
argmax(row) ==
    (CHOOSE j \in 1..Len(row) :
        /\ \A i \in 1..Len(row) : row[i] <= row[j]
        /\ \A i \in 1..(j - 1) : row[i] < row[j]) - 1

\* Tensor.unsqueeze(0), Tensor.squeeze(0), flatten(0, 1), view(d0, d1), transpose(0, 1)
unsqueeze(x) == <<x>>
squeeze(x) == x[1]
flatten(x) == Concat(x)
view(x, d0, d1) == [i \in 1..d0 |-> [j \in 1..d1 |-> x[(i - 1) * d1 + j]]]
transpose(x, d1) == [j \in 1..d1 |-> [i \in 1..Len(x) |-> x[i][j]]]

\* the parameters an optimizer can leave in a network, indexed by a seed
ParamSeeds == {1, 2}

NetParams(seed) ==
    [w1 |-> 1 - 2 * (seed % 2), b1 |-> seed % 2,             \* net: Linear(1, 1)
     wi |-> 1, wh |-> (seed % 3) - 1,                        \* lstm
     wa |-> [j \in 1..NumAction |-> ((2 * seed + j) % 3) - 1], \* fc_a: Linear(1, out_dim)
     ba |-> [j \in 1..NumAction |-> (seed + j + 1) % 2],
     wv |-> seed, bv |-> seed % 2]                           \* fc_v: Linear(1, 1)

ParamSet == {NetParams(seed) : seed \in ParamSeeds}

\* self.net: Linear followed by ReLU, elementwise over [seq][batch]
net(theta, priv_s) ==
    [t \in 1..Len(priv_s) |->
        [b \in 1..Len(priv_s[t]) |-> ReLU(theta.w1 * priv_s[t][b] + theta.b1)]]

\* one step of the library LSTM for one batch row, with the gates saturated to
\* integers: the memory c integrates input and hidden state, the hidden state
\* h is the squashed memory
lstm_cell(theta, x, hc) ==
    Bind(Clip(hc.c + theta.wi * x + theta.wh * hc.h, -2, 2), LAMBDA c1 :
        [h |-> Clip(c1, -1, 1), c |-> c1])

\* the states of one batch row after each step; acc holds the initial state and
\* the states after the steps taken so far
RECURSIVE lstm_row(_, _, _, _)
lstm_row(theta, x, b, acc) ==
    IF Len(acc) > Len(x) THEN Tail(acc)
    ELSE Bind(Append(acc, lstm_cell(theta, x[Len(acc)][b], acc[Len(acc)])), LAMBDA acc1 :
             lstm_row(theta, x, b, acc1))

\* self.lstm(x, (h0, c0)): the output o[seq][batch] is the hidden state after
\* each step, (h, c) the state after the last step, [layer][batch]
lstm(theta, x, h0, c0) ==
    Bind([b \in 1..Len(x[1]) |->
             lstm_row(theta, x, b, <<[h |-> h0[1][b], c |-> c0[1][b]]>>)], LAMBDA run :
        [o |-> [t \in 1..Len(x) |-> [b \in 1..Len(x[1]) |-> run[b][t].h]],
         h |-> <<[b \in 1..Len(x[1]) |-> run[b][Len(x)].h]>>,
         c |-> <<[b \in 1..Len(x[1]) |-> run[b][Len(x)].c]>>])

\* self.lstm(x): the state starts at zero
lstm_cold(theta, x) ==
    Bind(<<[b \in 1..Len(x[1]) |-> 0]>>, LAMBDA zeros : lstm(theta, x, zeros, zeros))

fc_a(theta, o) ==
    [t \in 1..Len(o) |-> [b \in 1..Len(o[t]) |->
        [j \in 1..NumAction |-> theta.wa[j] * o[t][b] + theta.ba[j]]]]

fc_v(theta, o) ==
    [t \in 1..Len(o) |-> [b \in 1..Len(o[t]) |-> theta.wv * o[t][b] + theta.bv]]

\* R2D2Net.get_h0
get_h0(batchsize) ==
    [h0 |-> <<[b \in 1..batchsize |-> 0]>>, c0 |-> <<[b \in 1..batchsize |-> 0]>>]

\* R2D2Net.act: the advantages [batch][action] and the new recurrent state
net_act(theta, priv_s, hid) ==
    Bind(net(theta, unsqueeze(priv_s)), LAMBDA x :
    Bind(lstm(theta, x, hid.h0, hid.c0), LAMBDA r :
    Bind(fc_a(theta, r.o), LAMBDA a :
        [a |-> squeeze(a), hid |-> [h0 |-> r.h, c0 |-> r.c]])))

\* R2D2Net._duel on [seq][batch][action], the result multiplied by the number
\* of actions: N*q = N*v + N*legal_a - sum(legal_a)
duel_no_mean(v, a, legal_move) ==
    [t \in 1..Len(a) |-> [b \in 1..Len(a[t]) |->
        [j \in 1..Len(a[t][b]) |->
            Len(a[t][b]) * v[t][b] + Len(a[t][b]) * (a[t][b][j] * legal_move[t][b][j])]]]

duel(v, a, legal_move) ==
    [t \in 1..Len(a) |-> [b \in 1..Len(a[t]) |->
        Bind([j \in 1..Len(a[t][b]) |-> a[t][b][j] * legal_move[t][b][j]], LAMBDA legal_a :
            [j \in 1..Len(legal_a) |->
                Len(legal_a) * v[t][b] + Len(legal_a) * legal_a[j] - SumSeq(legal_a)])]]

\* (x - x.min()) * legal_move on one row
legal_shift_no_one(row, lo, one, legal) ==
    [j \in 1..Len(row) |-> (row[j] - lo) * legal[j]]

\* (1 + x - x.min()) * legal_move on one row of x (lines 227 and 337): lo is
\* x.min(), taken over the whole tensor, and one is the constant 1 in the unit
\* the row is stored in
legal_shift(row, lo, one, legal) ==
    [j \in 1..Len(row) |-> (one + row[j] - lo) * legal[j]]

\* R2D2Net.forward on 3-D arguments; hid is a dictionary, empty for a cold
\* start; q, its minimum and legal_q are multiplied by the number of actions
net_forward3(theta, priv_s, legal_move, action, hid) ==
    Bind(net(theta, priv_s), LAMBDA x :
    Bind(IF DOMAIN hid = {} THEN lstm_cold(theta, x) ELSE lstm(theta, x, hid.h0, hid.c0),
         LAMBDA r :
    Bind(fc_a(theta, r.o), LAMBDA a :
    Bind(fc_v(theta, r.o), LAMBDA v :
    Bind(duel(v, a, legal_move), LAMBDA q :
    Bind(MinSeq(Concat(Concat(q))), LAMBDA qmin :
        [qa |-> [t \in 1..Len(q) |-> [b \in 1..Len(q[t]) |-> q[t][b][action[t][b] + 1]]],
         greedy_action |->
             [t \in 1..Len(q) |-> [b \in 1..Len(q[t]) |->
                 argmax(legal_shift(q[t][b], qmin, Len(q[t][b]), legal_move[t][b]))]],
         q |-> q, o |-> r.o]))))))

\* R2D2Net.forward: a 2-D priv_s (one_step) is unsqueezed, run as a sequence of
\* length 1, and the results are squeezed
net_forward(theta, priv_s, legal_move, action, hid, one_step) ==
    IF one_step
    THEN Bind(net_forward3(theta, unsqueeze(priv_s), unsqueeze(legal_move),
                           unsqueeze(action), hid), LAMBDA r :
             [qa |-> squeeze(r.qa), greedy_action |-> squeeze(r.greedy_action),
              q |-> squeeze(r.q), o |-> squeeze(r.o)])
    ELSE net_forward3(theta, priv_s, legal_move, action, hid)


----------------------------------------------------------------------------
(* r2d2.py: R2D2Agent.  An agent is a record of its constants (vdn,         *)
(* multi_step, gamma, uniform_priority) and of the parameters of its two   *)
(* networks (online, target).                                              *)

Gamma == [num |-> 9, den |-> 10]

\* the factor by which td_error's and compute_priority's values are stored
TdScale(ag) == NumAction * Pow(ag.gamma.den, ag.multi_step)

view3(x, d0, d1, d2) == view(view(x, d0 * d1, d2), d0, d1)

\* sum over the last dimension of a [rows][cols] tensor
sum_last(x) == [i \in 1..Len(x) |-> SumSeq(x[i])]

\* (adv * legal_move).argmax(1)
legal_adv_argmax_unshifted(adv, legal_move) ==
    [b \in 1..Len(adv) |->
        argmax([j \in 1..Len(adv[b]) |-> adv[b][j] * legal_move[b][j]])]

\* lines 337-338: ((1 + adv - adv.min()) * legal_move).argmax(1)
legal_adv_argmax(adv, legal_move) ==
    Bind(MinSeq(Concat(adv)), LAMBDA advmin :
        [b \in 1..Len(adv) |->
            argmax(legal_shift(adv[b], advmin, 1, legal_move[b]))])

\* R2D2Agent.greedy_act
greedy_act(ag, priv_s, legal_move, hid) ==
    Bind(net_act(ag.online, priv_s, hid), LAMBDA r :
        [greedy_action |-> legal_adv_argmax(r.a, legal_move), hid |-> r.hid])

\* what legal_move.multinomial(1).squeeze(1) can do: per row it draws the index
\* of an entry with positive weight; for a row without one it raises where the
\* library checks the weights, and draws an arbitrary index where it does not
multinomial(legal_move) ==
    {[status |-> "ok", draw |-> d] : d \in
        {d \in [1..Len(legal_move) -> Actions] :
            \A b \in 1..Len(legal_move) :
                SumSeq(legal_move[b]) > 0 => legal_move[b][d[b] + 1] > 0}}
    \cup (IF \E b \in 1..Len(legal_move) : SumSeq(legal_move[b]) = 0
          THEN {[status |-> "raise"]} ELSE {})

\* the values (torch.rand(...) < eps).long() can take: torch.rand draws from
\* [0, 1); eps is given in percent
rand_draws(eps) ==
    {u \in [1..Len(eps) -> {0, 1}] :
        \A b \in 1..Len(eps) : (eps[b] <= 0 => u[b] = 0) /\ (eps[b] >= 100 => u[b] = 1)}

eps_greedy_swapped(greedy_action, random_action, rand) ==
    [b \in 1..Len(greedy_action) |->
        greedy_action[b] * rand[b] + random_action[b] * (1 - rand[b])]

\* line 372: greedy_action * (1 - rand) + random_action * rand
eps_greedy(greedy_action, random_action, rand) ==
    [b \in 1..Len(greedy_action) |->
        greedy_action[b] * (1 - rand[b]) + random_action[b] * rand[b]]

\* lines 349-359, 418-423: flatten(0, 2) with vdn, flatten(0, 1) without
flat_batch(ag, x) == IF ag.vdn THEN flatten(flatten(x)) ELSE flatten(x)

\* lines 361-364, 426-433
flat_hid(h0, c0) ==
    [h0 |-> transpose(flatten(h0), Len(h0[1][1])),
     c0 |-> transpose(flatten(c0), Len(c0[1][1]))]

\* lines 374-381: view(obsize, ibsize, num_player) with vdn, view(obsize, ibsize)
\* without
view_batch(ag, x, obsize, ibsize, num_player) ==
    IF ag.vdn THEN view3(x, obsize, ibsize, num_player) ELSE view(x, obsize, ibsize)

\* R2D2Agent.act, given what multinomial and torch.rand did
act(ag, obs, drawn, rand) ==
    Bind(Len(obs.priv_s), LAMBDA obsize :
    Bind(Len(obs.priv_s[1]), LAMBDA ibsize :
    Bind(IF ag.vdn THEN Len(obs.priv_s[1][1]) ELSE 1, LAMBDA num_player :
    Bind(flat_batch(ag, obs.priv_s), LAMBDA priv_s :
    Bind(flat_batch(ag, obs.legal_move), LAMBDA legal_move :
    Bind(flat_hid(obs.h0, obs.c0), LAMBDA hid :
    Bind(greedy_act(ag, priv_s, legal_move, hid), LAMBDA g :
        IF drawn.status = "raise" THEN [status |-> "raise", why |-> "multinomial"]
        ELSE
        Bind(eps_greedy(g.greedy_action, drawn.draw, rand), LAMBDA action :
            [status |-> "ok",
             a |-> view_batch(ag, action, obsize, ibsize, num_player),
             greedy_a |-> view_batch(ag, g.greedy_action, obsize, ibsize, num_player),
             h0 |-> view(transpose(g.hid.h0, Len(priv_s)), obsize, ibsize * num_player),
             c0 |-> view(transpose(g.hid.c0, Len(priv_s)), obsize, ibsize * num_player)]
        ))))))))

\* Tensor.abs on a 1-D tensor
abs_tensor(x) == [b \in 1..Len(x) |-> Abs(x[b])]

\* the target network's value of its own greedy action
target_value_own_greedy(ag, priv_s, legal_move, chosen_a, hid, one_step) ==
    Bind(net_forward(ag.target, priv_s, legal_move, chosen_a, hid, one_step), LAMBDA own :
        net_forward(ag.target, priv_s, legal_move, own.greedy_action, hid, one_step).qa)

\* lines 440-442, 497: the target network's Q-value of the action handed to it
target_value(ag, priv_s, legal_move, chosen_a, hid, one_step) ==
    net_forward(ag.target, priv_s, legal_move, chosen_a, hid, one_step).qa

\* lines 447-448, 503-504: with vdn the sum over the players of a sample
sum_players(ag, qa, bsize, num_player) ==
    IF ag.vdn THEN sum_last(view(qa, bsize, num_player)) ELSE qa

\* lines 452, 515: reward + bootstrap * gamma ** multi_step * target_qa, as a
\* multiple of 1 / TdScale
td_target(ag, reward, bootstrap, target_qa) ==
    [b \in 1..Len(reward) |->
        NumAction * Pow(ag.gamma.den, ag.multi_step) * reward[b]
            + bootstrap[b] * Pow(ag.gamma.num, ag.multi_step) * target_qa[b]]

\* target - online_qa, as a multiple of 1 / TdScale
td_diff(ag, target, online_qa) ==
    [b \in 1..Len(target) |-> target[b] - Pow(ag.gamma.den, ag.multi_step) * online_qa[b]]

\* R2D2Agent.compute_priority; next_a and target_qa are its locals after line 442
compute_priority(ag, input_) ==
    IF ag.uniform_priority
    THEN [priority |-> [i \in 1..Len(input_.reward) |->
                           [j \in 1..Len(input_.reward[i]) |-> 1]],
          scale |-> 1]
    ELSE
    Bind(Len(input_.priv_s), LAMBDA obsize :
    Bind(Len(input_.priv_s[1]), LAMBDA ibsize :
    Bind(IF ag.vdn THEN Len(input_.priv_s[1][1]) ELSE 1, LAMBDA num_player :
    Bind(flat_batch(ag, input_.priv_s), LAMBDA priv_s :
    Bind(flat_batch(ag, input_.legal_move), LAMBDA legal_move :
    Bind(flat_batch(ag, input_.a), LAMBDA online_a :
    Bind(flat_batch(ag, input_.next_priv_s), LAMBDA next_priv_s :
    Bind(flat_batch(ag, input_.next_legal_move), LAMBDA next_legal_move :
    Bind(flat_hid(input_.h0, input_.c0), LAMBDA hid :
    Bind(flat_hid(input_.next_h0, input_.next_c0), LAMBDA next_hid :
    Bind(flatten(input_.reward), LAMBDA reward :
    Bind(flatten(input_.bootstrap), LAMBDA bootstrap :
    Bind(net_forward(ag.online, priv_s, legal_move, online_a, hid, TRUE).qa,
         LAMBDA online_qa :
    Bind(greedy_act(ag, next_priv_s, next_legal_move, next_hid).greedy_action,
         LAMBDA next_a :
    Bind(target_value(ag, next_priv_s, next_legal_move, next_a, next_hid, TRUE),
         LAMBDA target_qa :
    Bind(td_target(ag, reward, bootstrap,
                   sum_players(ag, target_qa, obsize * ibsize, num_player)),
         LAMBDA target :
    Bind(abs_tensor(td_diff(ag, target,
                            sum_players(ag, online_qa, obsize * ibsize, num_player))),
         LAMBDA priority :
        [priority |-> view(priority, obsize, ibsize), scale |-> TdScale(ag),
         next_a |-> next_a, target_qa |-> target_qa]
    )))))))))))))))))

\* R2D2Agent.flat_4d on one tensor: [seq][batch][player] -> [seq][batch * player]
flat_4d(v) == [t \in 1..Len(v) |-> flatten(v[t])]

shift_target_no_zero(target_qa, k) ==
    SubSeq(target_qa, k + 1, Len(target_qa))
        \o SubSeq(target_qa, 1, IF k < Len(target_qa) THEN k ELSE Len(target_qa))

\* lines 511-512: torch.cat([target_qa[k:], target_qa[:k]], 0), then
\* target_qa[-k:] = 0; the slice [-k:] is the whole tensor for k = 0 and for
\* k >= its length
shift_target(target_qa, k) ==
    Bind(SubSeq(target_qa, k + 1, Len(target_qa))
             \o SubSeq(target_qa, 1, IF k < Len(target_qa) THEN k ELSE Len(target_qa)),
         LAMBDA cat :
    Bind(IF k = 0 \/ k >= Len(cat) THEN 0 ELSE Len(cat) - k, LAMBDA start :
        [t \in 1..Len(cat) |->
            IF t - 1 >= start THEN [b \in 1..Len(cat[t]) |-> 0] ELSE cat[t]]))

\* lines 516-517: mask[t][b] = (t < seq_len[b])
seq_mask(max_seq_len, seq_len) ==
    [t \in 1..max_seq_len |-> [b \in 1..Len(seq_len) |-> IF t - 1 < seq_len[b] THEN 1 ELSE 0]]

\* R2D2Agent.td_error: err and lstm_o are what it returns; greedy_a and
\* target_qa are its locals after lines 494 and 497, online_qa and target_sum
\* (target_qa again) after line 504
td_error(ag, obs, action, reward, bootstrap, seq_len) ==
    Bind(Len(obs.priv_s), LAMBDA max_seq_len :
    Bind(IF ag.vdn THEN Len(obs.priv_s[1]) ELSE 0, LAMBDA bsize :
    Bind(IF ag.vdn THEN Len(obs.priv_s[1][1]) ELSE 1, LAMBDA num_player :
    Bind(IF ag.vdn THEN flat_4d(obs.priv_s) ELSE obs.priv_s, LAMBDA priv_s :
    Bind(IF ag.vdn THEN flat_4d(obs.legal_move) ELSE obs.legal_move, LAMBDA legal_move :
    Bind(IF ag.vdn THEN flat_4d(action.a) ELSE action.a, LAMBDA a :
    Bind(net_forward(ag.online, priv_s, legal_move, a, <<>>, FALSE), LAMBDA on :
    Bind(target_value(ag, priv_s, legal_move, on.greedy_action, <<>>, FALSE),
         LAMBDA target_qa :
    Bind([t \in 1..max_seq_len |-> sum_players(ag, on.qa[t], bsize, num_player)],
         LAMBDA online_qa :
    Bind([t \in 1..max_seq_len |-> sum_players(ag, target_qa[t], bsize, num_player)],
         LAMBDA target_sum :
    Bind(shift_target(target_sum, ag.multi_step), LAMBDA shifted :
    Bind([t \in 1..max_seq_len |-> td_target(ag, reward[t], bootstrap[t], shifted[t])],
         LAMBDA target :
    Bind(seq_mask(max_seq_len, seq_len), LAMBDA mask :
        [err |-> [t \in 1..max_seq_len |->
                     Bind(td_diff(ag, target[t], online_qa[t]), LAMBDA diff :
                         [b \in 1..Len(diff) |-> diff[b] * mask[t][b]])],
         lstm_o |-> on.o, online_qa |-> online_qa, greedy_a |-> on.greedy_action,
         target_qa |-> target_qa, target_sum |-> target_sum]
    )))))))))))))

\* nn.functional.smooth_l1_loss(err, 0, reduction="none") of err = e / scale,
\* as a multiple of 1 / (2 * scale^2): 0.5 * err^2 below 1, |err| - 0.5 from 1 on
smooth_l1(e, scale) == IF Abs(e) < scale THEN e * e ELSE (2 * Abs(e) - scale) * scale

\* R2D2Agent.loss with pred_weight = 0 (no auxiliary task): the loss per sample,
\* the priority per step and sample
loss(ag, batch) ==
    Bind(td_error(ag, batch.obs, batch.action, batch.reward, batch.bootstrap,
                  batch.seq_len), LAMBDA td :
        [loss |-> [b \in 1..Len(batch.seq_len) |->
                      SumSeq([t \in 1..Len(td.err) |->
                                 smooth_l1(td.err[t][b], TdScale(ag))])],
         priority |-> [t \in 1..Len(td.err) |-> abs_tensor(td.err[t])],
         scale |-> TdScale(ag), td |-> td])


----------------------------------------------------------------------------
(* The agent and the data it is called on.  A behaviour starts from an     *)
(* agent as R2D2Agent.__init__ leaves it and from one piece of data: the    *)
(* observation an actor hands to act and greedy_act, the transition it     *)
(* hands to compute_priority, or the padded batch the replay buffer hands  *)
(* to loss.  Each is a flat batch of two rows: two samples of one player   *)
(* each, or with vdn one sample of two players.                            *)

\* (vdn, multi_step, uniform_priority)
AgentConfigs ==
    {<<FALSE, 1, FALSE>>, <<TRUE, 2, FALSE>>, <<FALSE, 2, TRUE>>, <<TRUE, 1, TRUE>>}

\* R2D2Agent.__init__: two networks constructed independently
R2D2Agent(cfg, online, target) ==
    [vdn |-> cfg[1], multi_step |-> cfg[2], gamma |-> Gamma, uniform_priority |-> cfg[3],
     online |-> online, target |-> target]

\* sync_target_with_online with the copy reversed
sync_online_with_target(ag) == [ag EXCEPT !.online = ag.target]

\* R2D2Agent.sync_target_with_online
sync_target_with_online(ag) == [ag EXCEPT !.target = ag.online]

\* obs["priv_s"] of row r at step t, the legal-move mask, the action taken,
\* eps (in percent) and the recurrent state, each selected by a small index
Obs(sk, t, r) == (t + r + sk) % 2

LegalKinds == {"all", "first", "last", "alt", "none"}

LegalMove(lk, t, r) ==
    [j \in 1..NumAction |->
        CASE lk = "all" -> 1
          [] lk = "first" -> IF j = 1 THEN 1 ELSE 0
          [] lk = "last" -> IF j = NumAction THEN 1 ELSE 0
          [] lk = "alt" -> IF (t + r) % 2 = 1 \/ j = NumAction THEN 1 ELSE 0
          [] lk = "none" -> IF r = 1 THEN 0 ELSE 1]

Action(ak, t, r) == (ak + t + r) % NumAction

EpsKinds == {0, 50, 100}

Eps(ek, r) == IF r = 1 THEN ek ELSE 100 - ek

Hidden(hk, r) ==
    IF hk = 0 THEN [h |-> 0, c |-> 0]
    ELSE IF r = 1 THEN [h |-> 1, c |-> 2] ELSE [h |-> -1, c |-> -1]

\* the layouts: [obsize][ibsize] or with vdn [obsize][ibsize][num_player] for a
\* step, [obsize][ibsize * num_player][layer] for its recurrent state,
\* [obsize][ibsize] for its reward; [batch] or with vdn [batch][num_player] for
\* one time step of a batch, [batch] for its reward
PackStep(vdn, f) == IF vdn THEN << << <<f[1], f[2]>> >> >> ELSE << <<f[1]>>, <<f[2]>> >>
PackHid(vdn, f) ==
    IF vdn THEN << << <<f[1]>>, <<f[2]>> >> >> ELSE << << <<f[1]>> >>, << <<f[2]>> >> >>
PackSample(vdn, f) == IF vdn THEN << <<f[1]>> >> ELSE << <<f[1]>>, <<f[2]>> >>
PackSeq(vdn, f) == IF vdn THEN << <<f[1], f[2]>> >> ELSE <<f[1], f[2]>>
PackSeqSample(vdn, f) == IF vdn THEN <<f[1]>> ELSE <<f[1], f[2]>>

\* the argument of act, whose fields are also greedy_act's arguments
ObsInputs(vdn) ==
    {[kind |-> "obs",
      priv_s |-> PackStep(vdn, [r \in 1..2 |-> Obs(sk, 1, r)]),
      legal_move |-> PackStep(vdn, [r \in 1..2 |-> LegalMove(lk, 1, r)]),
      eps |-> PackStep(vdn, [r \in 1..2 |-> Eps(ek, r)]),
      h0 |-> PackHid(vdn, [r \in 1..2 |-> Hidden(hk, r).h]),
      c0 |-> PackHid(vdn, [r \in 1..2 |-> Hidden(hk, r).c])] :
        sk \in 0..1, lk \in LegalKinds, ek \in EpsKinds, hk \in 0..1}

\* the argument of compute_priority: a transition from step 1 to step 2
TransitionInputs(vdn) ==
    {[kind |-> "transition",
      priv_s |-> PackStep(vdn, [r \in 1..2 |-> Obs(sk, 1, r)]),
      legal_move |-> PackStep(vdn, [r \in 1..2 |-> LegalMove(lk, 1, r)]),
      h0 |-> PackHid(vdn, [r \in 1..2 |-> Hidden(hk, r).h]),
      c0 |-> PackHid(vdn, [r \in 1..2 |-> Hidden(hk, r).c]),
      a |-> PackStep(vdn, [r \in 1..2 |-> Action(ak, 1, r)]),
      next_priv_s |-> PackStep(vdn, [r \in 1..2 |-> Obs(sk, 2, r)]),
      next_legal_move |-> PackStep(vdn, [r \in 1..2 |-> LegalMove(lk, 2, r)]),
      next_h0 |-> PackHid(vdn, [r \in 1..2 |-> Hidden(1 - hk, r).h]),
      next_c0 |-> PackHid(vdn, [r \in 1..2 |-> Hidden(1 - hk, r).c]),
      reward |-> PackSample(vdn, [b \in 1..2 |-> IF b = 1 THEN rk ELSE 1 - rk]),
      bootstrap |-> PackSample(vdn, [b \in 1..2 |-> IF b = 1 THEN bk ELSE 1 - bk])] :
        sk \in 0..1, lk \in LegalKinds, hk \in 0..1, ak \in Actions,
        rk \in 0..1, bk \in 0..1}

\* the argument of loss: a batch of sequences padded to length T, the samples'
\* true lengths, a reward at a sample's last step, and bootstrap flags that are
\* all clear, all set, or set up to the sample's last step
BootKinds == 0..2

SeqLen(T, ql, b) == IF b = 1 THEN ql ELSE T + 1 - ql

BatchInputsOfLen(vdn, T) ==
    {[kind |-> "batch",
      obs |-> [priv_s |-> [t \in 1..T |-> PackSeq(vdn, [r \in 1..2 |-> Obs(sk, t, r)])],
               legal_move |->
                   [t \in 1..T |-> PackSeq(vdn, [r \in 1..2 |-> LegalMove(lk, t, r)])]],
      action |-> [a |-> [t \in 1..T |-> PackSeq(vdn, [r \in 1..2 |-> Action(ak, t, r)])]],
      reward |-> [t \in 1..T |-> PackSeqSample(vdn,
                     [b \in 1..2 |-> IF rk = 1 /\ t = SeqLen(T, ql, b) THEN 1 ELSE 0])],
      bootstrap |-> [t \in 1..T |-> PackSeqSample(vdn,
                        [b \in 1..2 |-> CASE bk = 0 -> 0
                                          [] bk = 1 -> 1
                                          [] OTHER -> IF t < SeqLen(T, ql, b) THEN 1 ELSE 0])],
      seq_len |-> PackSeqSample(vdn, [b \in 1..2 |-> SeqLen(T, ql, b)])] :
        sk \in 0..1, lk \in LegalKinds \ {"none"}, ak \in Actions,
        ql \in 1..T, rk \in 0..1, bk \in BootKinds}

BatchInputs(vdn) == UNION {BatchInputsOfLen(vdn, T) : T \in {MaxT - 1, MaxT}}

\* R2D2Agent.act
Act ==
    /\ input.kind = "obs"
    /\ \E drawn \in multinomial(flat_batch(agent, input.legal_move)) :
       \E rand \in (IF drawn.status = "raise" THEN {<<>>}
                    ELSE rand_draws(flat_batch(agent, input.eps))) :
          reply' = [op |-> "act", drawn |-> drawn, rand |-> rand,
                    out |-> act(agent, input, drawn, rand)]
    /\ UNCHANGED <<layer, call, agent, synced, input>>

\* R2D2Agent.greedy_act
GreedyAct ==
    /\ input.kind = "obs"
    /\ reply' = [op |-> "greedy_act",
                 out |-> greedy_act(agent, flat_batch(agent, input.priv_s),
                                    flat_batch(agent, input.legal_move),
                                    flat_hid(input.h0, input.c0))]
    /\ UNCHANGED <<layer, call, agent, synced, input>>

\* R2D2Agent.compute_priority
ComputePriority ==
    /\ input.kind = "transition"
    /\ reply' = [op |-> "compute_priority", out |-> compute_priority(agent, input)]
    /\ UNCHANGED <<layer, call, agent, synced, input>>

\* R2D2Agent.loss
Loss ==
    /\ input.kind = "batch"
    /\ reply' = [op |-> "loss", out |-> loss(agent, input)]
    /\ UNCHANGED <<layer, call, agent, synced, input>>

\* an optimizer step on online_net.parameters(): the training loop's, which
\* leaves any parameters in the online network
OptimStep ==
    /\ agent.online \in ParamSet
    /\ \E theta \in ParamSet \ {agent.online} :
          agent' = [agent EXCEPT !.online = theta]
    /\ reply' = [op |-> "optim_step"]
    /\ UNCHANGED <<layer, call, synced, input>>

\* R2D2Agent.sync_target_with_online
SyncTargetWithOnline ==
    /\ agent.online \in ParamSet
    /\ agent' = sync_target_with_online(agent)
    /\ synced' = agent.online
    /\ reply' = [op |-> "sync_target_with_online"]
    /\ UNCHANGED <<layer, call, input>>

InitAgent ==
    /\ layer = NoLayer
    /\ call = NoCall
    /\ \E cfg \in AgentConfigs, online \in ParamSet, target \in ParamSet :
          /\ agent = R2D2Agent(cfg, online, target)
          /\ input \in ObsInputs(cfg[1]) \cup TransitionInputs(cfg[1]) \cup BatchInputs(cfg[1])
    /\ synced = agent.target
    /\ reply = NoReply

NextAgent ==
    \/ Act
    \/ GreedyAct
    \/ ComputePriority
    \/ Loss
    \/ OptimStep
    \/ SyncTargetWithOnline

SpecAgent == InitAgent /\ [][NextAgent]_vars


----------------------------------------------------------------------------
(* Properties of the agent.                                                *)

\* the batch of the last loss call as the networks take it: [seq][row]
SeqRows(x) == IF agent.vdn THEN flat_4d(x) ELSE x

\* the number of players whose values are summed into one sample
NumPlayer == IF agent.vdn THEN 2 ELSE 1

\* the rows of sample b
RowsOf(b) == {(b - 1) * NumPlayer + p : p \in 1..NumPlayer}

SumOver(S, F(_)) == SumSeq([i \in 1..Cardinality(S) |->
                               F(CHOOSE r \in S : Cardinality({u \in S : u < r}) = i - 1)])

\* the legal actions of a row whose value in qrow is maximal
BestLegal(qrow, legal) ==
    {j \in Actions : /\ legal[j + 1] > 0
                     /\ \A i \in Actions : legal[i + 1] > 0 => qrow[i + 1] <= qrow[j + 1]}

\* the Q-values [seq][row][action] a network gives the batch of the last loss
\* call, and [row][action] those it gives the next state of the last transition
SeqQ(theta) ==
    net_forward3(theta, SeqRows(input.obs.priv_s), SeqRows(input.obs.legal_move),
                 SeqRows(input.action.a), <<>>).q

NextQ(theta) ==
    net_forward(theta, flat_batch(agent, input.next_priv_s),
                flat_batch(agent, input.next_legal_move), flat_batch(agent, input.a),
                flat_hid(input.next_h0, input.next_c0), TRUE).q

\* C2: td_error returns, for every time t and sample b, reward + bootstrap *
\* gamma^k * S - online_qa where t < seq_len[b] and 0 from seq_len[b] on; S is
\* the target value k steps later, and 0 at the last k positions; online_qa is
\* the online network's Q-value of the action taken (summed over the players
\* with vdn).  Values are multiples of 1 / TdScale.
C2_TdError ==
    reply.op = "loss" =>
        Bind(SeqQ(agent.online), LAMBDA q :
        Bind(SeqRows(input.action.a), LAMBDA a :
        Bind(reply.out.td, LAMBDA td :
            LET T == Len(input.reward)
                k == agent.multi_step
                den == Pow(Gamma.den, k)
                num == Pow(Gamma.num, k)
                online_qa(t, b) == SumOver(RowsOf(b), LAMBDA r : q[t][r][a[t][r] + 1])
                S(t, b) == IF t + k <= T THEN td.target_sum[t + k][b] ELSE 0
            IN  \A t \in 1..T : \A b \in 1..Len(input.seq_len) :
                    td.err[t][b] =
                        IF t - 1 < input.seq_len[b]
                        THEN NumAction * den * input.reward[t][b]
                                 + input.bootstrap[t][b] * num * S(t, b)
                                 - den * online_qa(t, b)
                        ELSE 0)))

\* a loss call with a sample shorter than the padded length, a step that
\* bootstraps from a nonzero target value k steps later, a step in the last k
\* positions whose bootstrap flag is set and where the rotation wrapped a
\* nonzero target value around, and an unmasked step that does not bootstrap
C2_Witness ==
    /\ reply.op = "loss"
    /\ LET td == reply.out.td
           T == Len(input.reward)
           k == agent.multi_step
           B == 1..Len(input.seq_len)
       IN  /\ \E b \in B : input.seq_len[b] < T
           /\ \E b \in B : \E t \in 1..input.seq_len[b] :
                  /\ t + k <= T
                  /\ input.bootstrap[t][b] = 1
                  /\ td.target_sum[t + k][b] # 0
                  /\ td.err[t][b] # 0
           /\ \E b \in B : \E t \in 1..input.seq_len[b] :
                  /\ t + k > T
                  /\ k < T
                  /\ input.bootstrap[t][b] = 1
                  /\ td.target_sum[t + k - T][b] # 0
           /\ \E b \in B : \E t \in 1..input.seq_len[b] : input.bootstrap[t][b] = 0

\* C3: in td_error and in compute_priority the value taken from the target
\* network is the target network's Q-value of the action the online network
\* ranks greedy among the legal actions of the same state
C3_DoubleQ ==
    /\ reply.op = "loss" =>
           Bind(SeqQ(agent.online), LAMBDA q_online :
           Bind(SeqQ(agent.target), LAMBDA q_target :
           Bind(SeqRows(input.obs.legal_move), LAMBDA legal_move :
           Bind(reply.out.td, LAMBDA td :
               \A t \in 1..Len(legal_move) : \A r \in 1..Len(legal_move[t]) :
                   /\ SumSeq(legal_move[t][r]) > 0 =>
                          td.greedy_a[t][r] \in BestLegal(q_online[t][r], legal_move[t][r])
                   /\ td.target_qa[t][r] = q_target[t][r][td.greedy_a[t][r] + 1]))))
    /\ reply.op = "compute_priority" /\ ~agent.uniform_priority =>
           Bind(NextQ(agent.online), LAMBDA q_online :
           Bind(NextQ(agent.target), LAMBDA q_target :
           Bind(flat_batch(agent, input.next_legal_move), LAMBDA legal_move :
               \A r \in 1..Len(legal_move) :
                   /\ SumSeq(legal_move[r]) > 0 =>
                          reply.out.next_a[r] \in BestLegal(q_online[r], legal_move[r])
                   /\ reply.out.target_qa[r] = q_target[r][reply.out.next_a[r] + 1])))

\* a loss call with a state in which the target network ranks another action
\* greedy than the online network does, and values the two differently
C3_Witness ==
    /\ reply.op = "loss"
    /\ Bind(SeqQ(agent.target), LAMBDA q_target :
       Bind(SeqRows(input.obs.legal_move), LAMBDA legal_move :
       Bind(reply.out.td, LAMBDA td :
           \E t \in 1..Len(legal_move) : \E r \in 1..Len(legal_move[t]) :
               /\ td.greedy_a[t][r] \notin BestLegal(q_target[t][r], legal_move[t][r])
               /\ \E j \in BestLegal(q_target[t][r], legal_move[t][r]) :
                      q_target[t][r][j + 1] # td.target_qa[t][r])))

\* C4: the target network's parameters change only in sync_target_with_online,
\* which makes them equal to the online parameters and leaves those unchanged;
\* at all times they equal the online parameters as of the last sync, or their
\* initial value if there has been none
C4_TargetOnlyBySync ==
    [][/\ agent'.target # agent.target => reply'.op = "sync_target_with_online"
       /\ reply'.op = "sync_target_with_online" =>
              /\ agent'.target = agent.online
              /\ agent'.online = agent.online
       /\ agent.target = synced
       /\ agent'.target = synced']_vars

\* an optimizer step has moved the online parameters away from the target's,
\* which are still those of the last sync
C4_Witness ==
    /\ reply.op = "optim_step"
    /\ agent.online # agent.target
    /\ agent.target = synced

\* C5: a reply of act carries a, greedy_a and the recurrent state after the
\* observation; for every row with a legal action, a is the row's greedy action
\* or the action multinomial drew for it, both of them legal; a row with
\* eps = 0 acts greedily
C5_EpsGreedy ==
    reply.op = "act" /\ reply.out.status = "ok" =>
        LET out == reply.out
            priv_s == flat_batch(agent, input.priv_s)
            legal_move == flat_batch(agent, input.legal_move)
            eps == flat_batch(agent, input.eps)
            a == flat_batch(agent, out.a)
            greedy_a == flat_batch(agent, out.greedy_a)
            h_in == flatten(input.h0)
            c_in == flatten(input.c0)
            h_out == flatten(out.h0)
            c_out == flatten(out.c0)
        IN  /\ {"a", "greedy_a", "h0", "c0"} \subseteq DOMAIN out
            /\ Len(a) = Len(priv_s) /\ Len(greedy_a) = Len(priv_s)
            /\ Len(h_out) = Len(priv_s) /\ Len(c_out) = Len(priv_s)
            /\ \A r \in 1..Len(priv_s) :
                   /\ SumSeq(legal_move[r]) > 0 =>
                          /\ a[r] \in {greedy_a[r], reply.drawn.draw[r]}
                          /\ legal_move[r][greedy_a[r] + 1] > 0
                          /\ legal_move[r][reply.drawn.draw[r] + 1] > 0
                          /\ legal_move[r][a[r] + 1] > 0
                   /\ eps[r] = 0 => a[r] = greedy_a[r]
                   /\ [h |-> h_out[r][1], c |-> c_out[r][1]]
                          = lstm_cell(agent.online,
                                      ReLU(agent.online.w1 * priv_s[r] + agent.online.b1),
                                      [h |-> h_in[r][1], c |-> c_in[r][1]])

\* a reply of act in which one row acted randomly and not greedily, another
\* row has eps = 0, and some action of some row is illegal
C5_Witness ==
    /\ reply.op = "act"
    /\ reply.out.status = "ok"
    /\ LET a == flat_batch(agent, reply.out.a)
           greedy_a == flat_batch(agent, reply.out.greedy_a)
           eps == flat_batch(agent, input.eps)
           legal_move == flat_batch(agent, input.legal_move)
       IN  /\ \E r \in 1..Len(a) : reply.rand[r] = 1 /\ a[r] # greedy_a[r]
           /\ \E r \in 1..Len(a) : eps[r] = 0
           /\ \E r \in 1..Len(a) : 0 < SumSeq(legal_move[r]) /\ SumSeq(legal_move[r]) < NumAction


\* what R2D2Net.forward hands to _duel for the batch of the last loss call, and
\* the Q it gets back
SeqDuel(theta) ==
    Bind(lstm_cold(theta, net(theta, SeqRows(input.obs.priv_s))).o, LAMBDA o :
        [v |-> fc_v(theta, o), a |-> fc_a(theta, o),
         legal_move |-> SeqRows(input.obs.legal_move),
         q |-> SeqQ(theta)])

\* C8: the Q that _duel returns has the shape of the legal-move mask, and in
\* every row in which all actions are legal the mean over the actions of
\* Q - value is 0 (Q is stored multiplied by the number of actions, so the sum
\* of Q - NumAction * value is)
C8_Dueling ==
    reply.op = "loss" =>
        \A theta \in {agent.online, agent.target} :
            Bind(SeqDuel(theta), LAMBDA d :
                /\ Len(d.q) = Len(d.legal_move)
                /\ \A t \in 1..Len(d.q) :
                       /\ Len(d.q[t]) = Len(d.legal_move[t])
                       /\ \A r \in 1..Len(d.q[t]) :
                              /\ Len(d.q[t][r]) = Len(d.legal_move[t][r])
                              /\ SumSeq(d.legal_move[t][r]) = NumAction =>
                                     SumSeq([j \in 1..NumAction |->
                                                d.q[t][r][j] - NumAction * d.v[t][r]]) = 0)

\* a loss call with a fully legal row whose advantages differ and do not sum
\* to 0, and a row with an illegal action
C8_Witness ==
    /\ reply.op = "loss"
    /\ Bind(SeqDuel(agent.online), LAMBDA d :
           /\ \E t \in 1..Len(d.q) : \E r \in 1..Len(d.q[t]) :
                  /\ SumSeq(d.legal_move[t][r]) = NumAction
                  /\ SumSeq(d.a[t][r]) # 0
                  /\ \E j \in 1..NumAction : d.a[t][r][j] # d.a[t][r][1]
           /\ \E t \in 1..Len(d.q) : \E r \in 1..Len(d.q[t]) :
                  /\ SumSeq(d.legal_move[t][r]) < NumAction
                  /\ \E j \in 1..NumAction :
                         d.legal_move[t][r][j] = 0 /\ d.a[t][r][j] # 0)

\* C9: every priority compute_priority returns and every entry of the priority
\* vector loss returns is >= 0, and with uniform_priority set is 1 (a stored
\* priority is the priority times the scale stored with it)
C9_Priorities ==
    /\ reply.op = "compute_priority" =>
           \A i \in 1..Len(reply.out.priority) : \A j \in 1..Len(reply.out.priority[i]) :
               /\ reply.out.priority[i][j] >= 0
               /\ agent.uniform_priority => reply.out.priority[i][j] = reply.out.scale
    /\ reply.op = "loss" =>
           \A t \in 1..Len(reply.out.priority) : \A b \in 1..Len(reply.out.priority[t]) :
               /\ reply.out.priority[t][b] >= 0
               /\ agent.uniform_priority => reply.out.priority[t][b] = reply.out.scale

\* C10: greedy_act, which goes through R2D2Net.act, yields the greedy action of
\* the sequence form of R2D2Net.forward on the same observation, mask and state
\* as a sequence of length 1, and the recurrent state of that form's LSTM, whose
\* hidden half is the output the form returns; R2D2Net.forward on the 2-D input
\* returns what the sequence form returns, squeezed
C10_SingleStep ==
    reply.op = "greedy_act" =>
        Bind(flat_batch(agent, input.priv_s), LAMBDA priv_s :
        Bind(flat_batch(agent, input.legal_move), LAMBDA legal_move :
        Bind(flat_hid(input.h0, input.c0), LAMBDA hid :
        Bind([r \in 1..Len(priv_s) |-> 0], LAMBDA action :
        Bind(net_forward3(agent.online, <<priv_s>>, <<legal_move>>, <<action>>, hid),
             LAMBDA seq :
        Bind(net_forward(agent.online, priv_s, legal_move, action, hid, TRUE), LAMBDA one :
        Bind(lstm(agent.online, net(agent.online, <<priv_s>>), hid.h0, hid.c0), LAMBDA r :
            /\ Len(seq.greedy_action) = 1
            /\ reply.out.greedy_action = seq.greedy_action[1]
            /\ reply.out.hid = [h0 |-> r.h, c0 |-> r.c]
            /\ reply.out.hid.h0[Len(r.h)] = seq.o[1]
            /\ one = [qa |-> seq.qa[1], greedy_action |-> seq.greedy_action[1],
                      q |-> seq.q[1], o |-> seq.o[1]])))))))

\* a greedy_act call from a nonzero recurrent state on a row in which an
\* illegal action has the largest advantage and the greedy action's advantage
\* is not positive
C10_Witness ==
    /\ reply.op = "greedy_act"
    /\ Bind(flat_batch(agent, input.legal_move), LAMBDA legal_move :
       Bind(net_act(agent.online, flat_batch(agent, input.priv_s),
                    flat_hid(input.h0, input.c0)).a, LAMBDA adv :
           /\ flatten(input.c0) # [r \in 1..Len(legal_move) |-> <<0>>]
           /\ \E r \in 1..Len(legal_move) :
                  /\ SumSeq(legal_move[r]) > 0
                  /\ adv[r][reply.out.greedy_action[r] + 1] <= 0
                  /\ \E j \in 1..NumAction :
                         /\ legal_move[r][j] = 0
                         /\ adv[r][j] > adv[r][reply.out.greedy_action[r] + 1]))


----------------------------------------------------------------------------
(* sym_utils.build_bias: one vector of width out_sizes[m] per arity class m *)
(* (an empty one for a class of width 0), filled like the other parameters. *)
(* SymLinear.__init__ does not call it: it allocates the flat bias above.   *)
build_bias(n, out_sizes, seed) ==
    [mm \in 1..Len(out_sizes) |-> [c \in 1..out_sizes[mm] |-> (seed + mm + c) % 3]]

\* the slice of a tensor v laid out by sizes that belongs to the i-th
\* output permutation of linear's outer loops
SliceOf(n, sizes, v, i) ==
    LET iter == OutIter(n, sizes)
        st == SliceStart(iter, sizes, i)
    IN  SubSeq(v, st + 1, st + sizes[iter[i][1] + 1])

(* C12: bias sharing.  In every forward call the tensor y that linear       *)
(* starts from (the layer's bias) holds, for any two output permutations of *)
(* the same arity class, the same bias values in their two slices: the     *)
(* bias is one vector of width out_sizes[m1] per arity class, shared by    *)
(* all P(n, m1) slices of the class.                                       *)
C12_BiasSharing ==
    call.op = "forward" =>
        LET iter == OutIter(layer.n, layer.out_sizes)
        IN  \A i, j \in 1..Len(iter) :
               iter[i][1] = iter[j][1] =>
                  SliceOf(layer.n, layer.out_sizes, layer.bias, i)
                     = SliceOf(layer.n, layer.out_sizes, layer.bias, j)


----------------------------------------------------------------------------
\* the keys (m1, perm0) a forward call looked up in the weight table
LookedUp(out) ==
    UNION {{<<out.trace[i].m1, out.trace[i].keys[j]>> : j \in 1..Len(out.trace[i].keys)}
           : i \in 1..Len(out.trace)}

(* C14: weight-table coverage.  In every forward call no lookup misses the  *)
(* table, the set of keys (m1, masked perm0) the call looked up is exactly *)
(* the set of keys build_weight allocated (so every allocated weight is    *)
(* used), and the keys build_weight makes for two different class pairs    *)
(* (m1, m0) are different.                                                 *)
C14_WeightCoverage ==
    call.op = "forward" =>
        /\ call.out.why # "KeyError"
        /\ LookedUp(call.out) = DOMAIN layer.weight
        /\ DOMAIN layer.weight = build_weight_keys(layer.n, layer.in_sizes, layer.out_sizes)
        /\ \A m1 \in Classes(layer.out_sizes) : \A m0, m0b \in Classes(layer.in_sizes) :
              m0 # m0b => unq_permutations(layer.n, m0, m1)
                            \cap unq_permutations(layer.n, m0b, m1) = {}


----------------------------------------------------------------------------
\* a shifted and masked row s of the row x: illegal slots are exactly 0, legal
\* slots are strictly positive and keep the order x gives them
ShiftMasks(s, x, legal) ==
    /\ \A j \in 1..Len(x) : legal[j] = 0 => s[j] = 0
    /\ \A j \in 1..Len(x) : legal[j] > 0 => s[j] > 0
    /\ \A i, j \in 1..Len(x) :
          (legal[i] > 0 /\ legal[j] > 0) => (x[i] < x[j] <=> s[i] < s[j])

(* C13: greedy masking.  In greedy_act (on the advantages) and in the       *)
(* forward pass of loss (on the Q-values), the tensor                      *)
(* (1 + x - min(x)) * legal_move, min taken over the whole batch tensor,   *)
(* is exactly 0 at every illegal slot and strictly positive at every legal *)
(* slot, in the same order as x among the legal slots of a row; and for    *)
(* every row with a legal action the greedy action returned is a legal     *)
(* action whose advantage (Q-value) is maximal among the row's legal ones. *)
C13_GreedyMasking ==
    /\ reply.op = "greedy_act" =>
           Bind(flat_batch(agent, input.legal_move), LAMBDA legal_move :
           Bind(net_act(agent.online, flat_batch(agent, input.priv_s),
                        flat_hid(input.h0, input.c0)).a, LAMBDA adv :
           Bind(MinSeq(Concat(adv)), LAMBDA advmin :
               \A r \in 1..Len(adv) :
                   /\ ShiftMasks(legal_shift(adv[r], advmin, 1, legal_move[r]),
                                 adv[r], legal_move[r])
                   /\ SumSeq(legal_move[r]) > 0 =>
                          /\ legal_move[r][reply.out.greedy_action[r] + 1] > 0
                          /\ reply.out.greedy_action[r] \in BestLegal(adv[r], legal_move[r]))))
    /\ reply.op = "loss" =>
           Bind(SeqRows(input.obs.legal_move), LAMBDA legal_move :
           Bind(SeqQ(agent.online), LAMBDA q :
           Bind(MinSeq(Concat(Concat(q))), LAMBDA qmin :
           Bind(reply.out.td.greedy_a, LAMBDA greedy_a :
               \A t \in 1..Len(q) : \A r \in 1..Len(q[t]) :
                   /\ ShiftMasks(legal_shift(q[t][r], qmin, NumAction, legal_move[t][r]),
                                 q[t][r], legal_move[t][r])
                   /\ SumSeq(legal_move[t][r]) > 0 =>
                          /\ legal_move[t][r][greedy_a[t][r] + 1] > 0
                          /\ greedy_a[t][r] \in BestLegal(q[t][r], legal_move[t][r])))))

\* a greedy_act call on a batch of more than one row in which one row has a
\* legal and an illegal action, the illegal one with the larger advantage,
\* the legal one with an advantage above the minimum of the batch, and
\* another row has a legal action whose advantage is that minimum
C13_Witness ==
    /\ reply.op = "greedy_act"
    /\ Bind(flat_batch(agent, input.legal_move), LAMBDA legal_move :
       Bind(net_act(agent.online, flat_batch(agent, input.priv_s),
                    flat_hid(input.h0, input.c0)).a, LAMBDA adv :
       Bind(MinSeq(Concat(adv)), LAMBDA advmin :
           /\ \E r \in 1..Len(adv) : \E i, j \in 1..NumAction :
                  /\ legal_move[r][i] = 0 /\ legal_move[r][j] > 0
                  /\ adv[r][i] > adv[r][j]
                  /\ adv[r][j] > advmin
                  /\ reply.out.greedy_action[r] = j - 1
           /\ \E r \in 1..Len(adv) : \E j \in 1..NumAction :
                  /\ legal_move[r][j] > 0
                  /\ adv[r][j] = advmin
                  /\ legal_shift(adv[r], advmin, 1, legal_move[r])[j] = 1)))


----------------------------------------------------------------------------
(* r2d2.py: SymLSTMCell and SymLSTM, called on unbatched, unpacked tensors: *)
(* a sequence is [step][feature], a recurrent state is a record of its two *)
(* halves h and c, each [layer][feature].                                  *)

MaxLayers == 2   \* layers of a SymLSTM stack: 1..MaxLayers

\* tanh and sigmoid, saturated to integers
Tanh(v) == Clip(v, -1, 1)
Sigmoid(v) == IF v > 0 THEN 1 ELSE 0

\* SymLSTMCell.__init__ followed by reset_parameters
SymLSTMCell(n, in_sizes, hid_sizes, seed) ==
    LET gate_sizes == [mm \in 1..Len(hid_sizes) |-> hid_sizes[mm] * 4]
        gate_size == sizes_to_size(n, gate_sizes)
    IN  [n |-> n,
         in_sizes |-> in_sizes,
         in_size |-> sizes_to_size(n, in_sizes),
         hid_sizes |-> hid_sizes,
         hid_size |-> sizes_to_size(n, hid_sizes),
         gate_sizes |-> gate_sizes,
         gate_size |-> gate_size,
         weight_ih |-> build_weight(n, in_sizes, gate_sizes, seed),
         weight_hh |-> build_weight(n, hid_sizes, gate_sizes, seed + 1),
         bias_ih |-> [i \in 1..gate_size |-> (seed + i) % 3],
         bias_hh |-> [i \in 1..gate_size |-> (seed + 2 * i) % 3]]

\* lines 72-80 of SymLSTMCell.forward: per hidden slice, the four gate chunks
\* (g, i, f, o) of the slice's gates give the new memory and the new hidden
\* state
cell_update(cell, gates, c0) ==
    LET iter == OutIter(cell.n, cell.hid_sizes)
        st(k) == SliceStart(iter, cell.hid_sizes, k)
        w(k) == cell.hid_sizes[iter[k][1] + 1]
        blk(c) == CHOOSE k \in 1..Len(iter) : st(k) < c /\ c <= st(k) + w(k)
        gate(c, q) == gates[4 * st(blk(c)) + q * w(blk(c)) + (c - st(blk(c)))]
        c1 == [c \in 1..cell.hid_size |->
                  Tanh(gate(c, 0)) * Sigmoid(gate(c, 1)) + c0[c] * Sigmoid(gate(c, 2))]
    IN  [h |-> [c \in 1..cell.hid_size |-> Tanh(c1[c]) * Sigmoid(gate(c, 3))],
         c |-> c1]

\* SymLSTMCell.forward: hx is [given |-> FALSE] for None, else it holds h and c
SymLSTMCell_forward(cell, x, hx) ==
    LET zeros == [c \in 1..cell.hid_size |-> 0]
        h0 == IF hx.given THEN hx.h ELSE zeros
        c0 == IF hx.given THEN hx.c ELSE zeros
        fail(why) == [status |-> "raise", why |-> why, h |-> <<>>, c |-> <<>>]
        ih == linear(cell.n, cell.in_sizes, cell.gate_sizes, cell.gate_size,
                     x, cell.weight_ih, cell.bias_ih)
    IN  IF ih.status = "raise" THEN fail(ih.why)
        ELSE LET hh == linear(cell.n, cell.hid_sizes, cell.gate_sizes, cell.gate_size,
                              h0, cell.weight_hh, cell.bias_hh)
             IN  IF hh.status = "raise" THEN fail(hh.why)
                 ELSE LET r == cell_update(cell, [c \in 1..cell.gate_size |->
                                                     ih.y[c] + hh.y[c]], c0)
                      IN  [status |-> "ok", why |-> "", h |-> r.h, c |-> r.c]

\* SymLSTM.__init__: layer 0 takes the input signature, the layers above it
\* the hidden signature
SymLSTM(n, in_sizes, hid_sizes, num_layers, seed) ==
    [n |-> n,
     in_sizes |-> in_sizes,
     in_size |-> sizes_to_size(n, in_sizes),
     hid_sizes |-> hid_sizes,
     hid_size |-> sizes_to_size(n, hid_sizes),
     num_layers |-> num_layers,
     lstm |-> [i \in 1..num_layers |->
                  SymLSTMCell(n, IF i > 1 THEN hid_sizes ELSE in_sizes, hid_sizes, seed + i)]]

\* SymLSTM.forward on an unpacked sequence x.  steps lists the cell calls the
\* loops made.  With a prior state, line 115 reads self.permute_hid, which the
\* class does not define (its method is permute_hidden).  On a cold start the
\* two halves of hx are one and the same zeros tensor; an empty sequence skips
\* the loops and returns it; otherwise the first pass through line 120
\* iterates over the integer self.num_layers, before any cell is called and
\* before x is assigned.
SymLSTM_forward(stack, x, hx) ==
    LET zeros == [t \in 1..stack.num_layers |-> [c \in 1..stack.hid_size |-> 0]]
        fail(why) == [status |-> "raise", why |-> why, output |-> <<>>,
                      hx |-> [h |-> <<>>, c |-> <<>>], steps |-> <<>>]
    IN  IF hx.given THEN fail("AttributeError")
        ELSE IF Len(x) = 0
             THEN [status |-> "ok", why |-> "", output |-> <<>>,
                   hx |-> [h |-> zeros, c |-> zeros], steps |-> <<>>]
             ELSE fail("TypeError")

\* the stacks of the model: signatures of at most two arity classes, a
\* hidden signature with a nonzero width (reset_parameters divides by the
\* square root of hid_size)
Stacks ==
    UNION {{SymLSTM(n, i, h, L, 0) :
               i \in {s \in Signatures(n) : Len(s) <= 2},
               h \in {s \in Signatures(n) : Len(s) <= 2 /\ Classes(s) # {}},
               L \in 1..MaxLayers}
           : n \in 2..MaxN}

\* sequences of 0..MaxT-1 steps, with or without a prior state
SeqInputs(stack) ==
    {[kind |-> "sequence",
      x |-> [i \in 1..T |-> [c \in 1..stack.in_size |-> (kd * (i + c) + 1) % 3]],
      hx |-> IF given
             THEN [given |-> TRUE,
                   h |-> [t \in 1..stack.num_layers |->
                             [c \in 1..stack.hid_size |-> (kd + t + c) % 2]],
                   c |-> [t \in 1..stack.num_layers |->
                             [c \in 1..stack.hid_size |-> ((kd + t) % 3) - 1]]]
             ELSE [given |-> FALSE]]
     : T \in 0..(MaxT - 1), kd \in InputKinds, given \in BOOLEAN}

\* SymLSTM.forward
LstmForward ==
    /\ input.kind = "sequence"
    /\ reply' = [op |-> "lstm_forward", out |-> SymLSTM_forward(layer, input.x, input.hx)]
    /\ UNCHANGED <<layer, call, agent, synced, input>>

\* SymLSTMCell.forward of layer 0 on the first step of the sequence
CellForward ==
    /\ input.kind = "sequence"
    /\ Len(input.x) > 0
    /\ call' = [op |-> "cell_forward",
                out |-> SymLSTMCell_forward(layer.lstm[1], input.x[1],
                           IF input.hx.given
                           THEN [given |-> TRUE, h |-> input.hx.h[1], c |-> input.hx.c[1]]
                           ELSE [given |-> FALSE])]
    /\ UNCHANGED <<layer, agent, synced, input, reply>>

InitLstm ==
    /\ layer \in Stacks
    /\ input \in SeqInputs(layer)
    /\ call = NoCall
    /\ agent = NoAgent
    /\ synced = NoAgent
    /\ reply = NoReply

NextLstm == LstmForward \/ CellForward

SpecLstm == InitLstm /\ [][NextLstm]_vars


----------------------------------------------------------------------------
(* C11: recurrent stack stepping.  Every call of SymLSTM.forward, from a    *)
(* cold start or from a provided prior state, completes; it makes one cell *)
(* call per step i and layer t, in this order; layer 0 consumes input[i]   *)
(* and layer t > 0 the new hidden state of layer t-1 at the same step;     *)
(* each cell call starts from the layer's state after the previous step    *)
(* (the initial state at step 0) and its result becomes the layer's new    *)
(* hidden and memory halves, the two kept apart; output[i] is the top      *)
(* layer's new hidden state, and the state returned is the one after the   *)
(* last step.                                                              *)
C11_StackStepping ==
    reply.op = "lstm_forward" =>
        LET out == reply.out
            T == Len(input.x)
            L == layer.num_layers
            zeros == [c \in 1..layer.hid_size |-> 0]
            at(i, t) == out.steps[(i - 1) * L + t]
            before(i, t) ==
                IF i > 1 THEN [given |-> TRUE, h |-> at(i - 1, t).h, c |-> at(i - 1, t).c]
                ELSE IF input.hx.given
                     THEN [given |-> TRUE, h |-> input.hx.h[t], c |-> input.hx.c[t]]
                     ELSE [given |-> TRUE, h |-> zeros, c |-> zeros]
            consumed(i, t) == IF t > 1 THEN at(i, t - 1).h ELSE input.x[i]
        IN  /\ out.status = "ok"
            /\ Len(out.output) = T
            /\ Len(out.steps) = T * L
            /\ \A i \in 1..T : \A t \in 1..L :
                  LET r == SymLSTMCell_forward(layer.lstm[t], consumed(i, t), before(i, t))
                  IN  /\ at(i, t).i = i - 1 /\ at(i, t).t = t - 1
                      /\ at(i, t).x = consumed(i, t)
                      /\ r.status = "ok"
                      /\ at(i, t).h = r.h /\ at(i, t).c = r.c
            /\ \A i \in 1..T : out.output[i] = at(i, L).h
            /\ \A t \in 1..L :
                  /\ out.hx.h[t] = before(T + 1, t).h
                  /\ out.hx.c[t] = before(T + 1, t).c

============================================================================
